---- MODULE Spec2Model ----
(***************************************************************************)
(* Transaction entries of the Chain protocol: the entry graph, its         *)
(* validation rules and the application of a validated transaction to the  *)
(* chain state (the UTXO set and the Nonce set), after                     *)
(* docs/protocol/specifications/entries.md.                                *)
(*                                                                         *)
(* An entry ID is the hash of the entry's type and body.  The model names  *)
(* each ID by a short string; a pointer is such a name, and Nil is the     *)
(* all-zero hash.  Positions are counted from 0 as in the document, so the *)
(* item at Position p of a list is element p + 1 of the sequence.          *)
(***************************************************************************)
EXTENDS Integers, Sequences, FiniteSets, TLC

\* ------------------------------------------------------------------ bounds
\* Amounts of an AssetAmount range over 1..MaxAmount.
MaxAmount == 3
\* Program VM versions and transaction versions range over 1..MaxVersion.
MaxVersion == 2
\* Mintime, Maxtime and block timestamps range over 0..MaxTime.
MaxTime == 2
\* Transactions submitted to one chain state.
MaxTxs == 2

\* ------------------------------------------------------------- data model
Nil == "nil"

AssetIDs == {"A", "B"}

Scripts == {"true", "false", "needarg"}

ArgLists == {<<>>, <<"a">>}

AssetAmount(a, n) == [AssetID |-> a, Amount |-> n]

\* A ValueSource; a ValueDestination has the same three fields.
ValueSource(r, v, p) == [Ref |-> r, Value |-> v, Position |-> p]

ValueDestination(r, v, p) == [Ref |-> r, Value |-> v, Position |-> p]

Program(vm, s) == [VMVersion |-> vm, Script |-> s]

NoProgram == Program(1, "true")

\* An asset definition; Tag stands for its Initial Block ID and Asset
\* Reference Data.
AssetDefinition(t, p) == [Tag |-> t, IssuanceProgram |-> p]

\* The hash of an asset definition, an asset ID.
AssetDefinitionHash(d) == IF d.Tag = "defA" THEN "A" ELSE "B"

\* Every entry is held as one record shape; a variant uses the fields of its
\* body and witness and leaves the others blank.  Output and Retirement keep
\* their Source as Sources[1]; Issuance and Spend keep their Destination as
\* Destinations[1].
Blank ==
  [Type |-> "", Version |-> 0, Results |-> <<>>, Mintime |-> 0, Maxtime |-> 0,
   ExtHash |-> 0, Sources |-> <<>>, Destinations |-> <<>>,
   Program |-> NoProgram, Arguments |-> <<>>, SpentOutput |-> Nil,
   Anchor |-> Nil, Issuance |-> Nil, TimeRange |-> Nil,
   Value |-> AssetAmount("A", 0), AssetDefinition |-> AssetDefinition("defA", NoProgram)]

TxHeader(v, results, mint, maxt) ==
  [Blank EXCEPT !.Type = "txheader", !.Version = v, !.Results = results,
                !.Mintime = mint, !.Maxtime = maxt]

Output(src, prog) ==
  [Blank EXCEPT !.Type = "output1", !.Sources = <<src>>, !.Program = prog]

Retirement(src) ==
  [Blank EXCEPT !.Type = "retirement1", !.Sources = <<src>>]

Spend(spent, dst, args) ==
  [Blank EXCEPT !.Type = "spend1", !.SpentOutput = spent,
                !.Destinations = <<dst>>, !.Arguments = args]

Issuance(anchor, val, dst, def, args) ==
  [Blank EXCEPT !.Type = "issuance1", !.Anchor = anchor, !.Value = val,
                !.Destinations = <<dst>>, !.AssetDefinition = def,
                !.Arguments = args]

Nonce(prog, tr, args, iss) ==
  [Blank EXCEPT !.Type = "nonce", !.Program = prog, !.TimeRange = tr,
                !.Arguments = args, !.Issuance = iss]

TimeRange(mint, maxt) ==
  [Blank EXCEPT !.Type = "timerange", !.Mintime = mint, !.Maxtime = maxt]

Mux(srcs, prog, dsts, args) ==
  [Blank EXCEPT !.Type = "mux1", !.Sources = srcs, !.Program = prog,
                !.Destinations = dsts, !.Arguments = args]

Source(e) == e.Sources[1]

Destination(e) == e.Destinations[1]

\* The ID of the header entry, which is the transaction's ID holder.
HeaderID == "H"

\* An ID that no transaction of the model holds an entry for.
AbsentID == "X9"

\* ------------------------------------------------- well-formed transactions
TrueProgram == Program(1, "true")

\* Scenario 1: a Nonce N1 over TimeRange T1 anchors Issuance I1, whose value
\* goes to Output O1.
TxIssue ==
  ("H" :> TxHeader(1, <<"O1">>, 0, 0)) @@
  ("O1" :> Output(ValueSource("I1", AssetAmount("A", 2), 0), TrueProgram)) @@
  ("I1" :> Issuance("N1", AssetAmount("A", 2),
                    ValueDestination("O1", AssetAmount("A", 2), 0),
                    AssetDefinition("defA", TrueProgram), <<>>)) @@
  ("N1" :> Nonce(TrueProgram, "T1", <<>>, "I1")) @@
  ("T1" :> TimeRange(0, 0))

\* Scenario 2: Spend S1 of the earlier Output P1 goes to Output O2.  P1 came
\* out of the Mux M2 of an earlier transaction, carried along in Entries.
TxSpend ==
  ("H" :> TxHeader(1, <<"O2">>, 0, 0)) @@
  ("O2" :> Output(ValueSource("S1", AssetAmount("A", 1), 0), TrueProgram)) @@
  ("S1" :> Spend("P1", ValueDestination("O2", AssetAmount("A", 1), 0), <<>>)) @@
  ("P1" :> Output(ValueSource("M2", AssetAmount("A", 1), 0), TrueProgram)) @@
  ("M2" :> Mux(<<ValueSource(AbsentID, AssetAmount("A", 1), 0)>>, TrueProgram,
               <<ValueDestination("P1", AssetAmount("A", 1), 0)>>, <<>>))

\* Spend S2 of the Output O1 that TxIssue adds, going to Output O3.
TxRespend ==
  ("H" :> TxHeader(1, <<"O3">>, 0, 0)) @@
  ("O3" :> Output(ValueSource("S2", AssetAmount("A", 2), 0), TrueProgram)) @@
  ("S2" :> Spend("O1", ValueDestination("O3", AssetAmount("A", 2), 0), <<>>)) @@
  ("O1" :> Output(ValueSource("I1", AssetAmount("A", 2), 0), TrueProgram))

\* TxIssue and TxRespend in one transaction: O1 is a result and is spent.
TxSelfSpend ==
  ("H" :> TxHeader(1, <<"O1", "O3">>, 0, 0)) @@
  ("O3" :> Output(ValueSource("S2", AssetAmount("A", 2), 0), TrueProgram)) @@
  ("S2" :> Spend("O1", ValueDestination("O3", AssetAmount("A", 2), 0), <<>>)) @@
  TxIssue

\* Issuance I1 and Spend S1 feed Mux M1, which pays Output O5 and
\* Retirement R1.
TxMux ==
  ("H" :> TxHeader(1, <<"O5", "R1">>, 0, 0)) @@
  ("O5" :> Output(ValueSource("M1", AssetAmount("A", 2), 0), TrueProgram)) @@
  ("R1" :> Retirement(ValueSource("M1", AssetAmount("A", 1), 1))) @@
  ("M1" :> Mux(<<ValueSource("I1", AssetAmount("A", 2), 0),
                 ValueSource("S1", AssetAmount("A", 1), 0)>>, TrueProgram,
               <<ValueDestination("O5", AssetAmount("A", 2), 0),
                 ValueDestination("R1", AssetAmount("A", 1), 0)>>, <<>>)) @@
  ("I1" :> Issuance("N1", AssetAmount("A", 2),
                    ValueDestination("M1", AssetAmount("A", 2), 0),
                    AssetDefinition("defA", TrueProgram), <<>>)) @@
  ("S1" :> Spend("P1", ValueDestination("M1", AssetAmount("A", 1), 1), <<>>)) @@
  ("P1" :> Output(ValueSource("M2", AssetAmount("A", 1), 0), TrueProgram)) @@
  ("N1" :> Nonce(TrueProgram, "T1", <<>>, "I1")) @@
  ("T1" :> TimeRange(0, 0))

\* Two issuances in one transaction, each anchored at its own Nonce; the
\* second Nonce has a TimeRange with a Maxtime.
TxTwoIssue ==
  ("H" :> TxHeader(1, <<"O1", "O4">>, 0, 0)) @@
  ("O4" :> Output(ValueSource("I2", AssetAmount("B", 1), 0), TrueProgram)) @@
  ("I2" :> Issuance("N2", AssetAmount("B", 1),
                    ValueDestination("O4", AssetAmount("B", 1), 0),
                    AssetDefinition("defB", TrueProgram), <<>>)) @@
  ("N2" :> Nonce(TrueProgram, "T2", <<>>, "I2")) @@
  ("T2" :> TimeRange(0, 1)) @@
  TxIssue

\* TxMux with the largest Amount on the Issuance's edge and on the Output's:
\* both sums of Mux M1 are one more than the largest Integer.
TxBigMux ==
  [TxMux EXCEPT
     !["I1"].Value.Amount = MaxAmount,
     !["I1"].Destinations[1].Value.Amount = MaxAmount,
     !["M1"].Sources[1].Value.Amount = MaxAmount,
     !["M1"].Destinations[1].Value.Amount = MaxAmount,
     !["O5"].Sources[1].Value.Amount = MaxAmount]

BaseTxs == {TxIssue, TxSpend, TxRespend, TxSelfSpend, TxMux}

\* The entry IDs of the transactions.
AllIDs == UNION {DOMAIN t : t \in BaseTxs \cup {TxTwoIssue, TxBigMux}}

\* The IDs of Outputs and of Nonces that the transactions above can name.
OutputIDs == {"P1", "O1", "O2", "O3", "O5"}

NonceIDs == {"N1"}

\* -------------------------------------------------------------- validation
Accept == "accept"

\* The state of one validation: the first error met, if any, and the IDs of
\* the entries validated so far.
Fail(st, e) == [st EXCEPT !.err = e]

\* The injected program validator: "true" always evaluates successfully,
\* "false" never, "needarg" only when given an argument.
VerifyProgram(P, A) ==
  \/ P.Script = "true"
  \/ P.Script = "needarg" /\ A # <<>>

\* A program validation that lets a later VM version pass in any transaction.
ValidateProgramAnyVersion(P, A, V) ==
  IF P.VMVersion > 1 THEN TRUE
  ELSE IF P.VMVersion = 1 THEN VerifyProgram(P, A)
  ELSE FALSE

\* Program validation inside a transaction of version V.
ValidateProgram(P, A, V) ==
  IF P.VMVersion > 1 THEN V > 1
  ELSE IF P.VMVersion = 1 THEN VerifyProgram(P, A)
  ELSE FALSE

\* An entry's ExtHash must be 32 zero-bytes when the version is known.
\* An extension discipline kept for the header alone.
ExtHashOKHeaderOnly(tx, e) ==
  (tx[HeaderID].Version = 1 /\ e.Type = "txheader") => e.ExtHash = 0

ExtHashOK(tx, e) == tx[HeaderID].Version = 1 => e.ExtHash = 0

SourcePosition(e, i) == IF e.Type = "mux1" THEN i - 1 ELSE 0

DestinationPosition(e, i) == IF e.Type = "mux1" THEN i - 1 ELSE 0

RECURSIVE SumAmounts(_, _, _)
\* The total Amount of the items i.. of list vs that carry asset a.
SumAmounts(vs, a, i) ==
  IF i > Len(vs) THEN 0
  ELSE (IF vs[i].Value.AssetID = a THEN vs[i].Value.Amount ELSE 0)
       + SumAmounts(vs, a, i + 1)

AssetsOf(vs) == {vs[i].Value.AssetID : i \in 1..Len(vs)}

\* A conservation check that is left out.
ConservedUnchecked(m) == TRUE

\* The largest Integer: an Amount is an Integer, and so is a sum of Amounts.
\* It stands to MaxAmount as 2^63 - 1 stands to the largest Amount.
MaxInteger == MaxAmount

\* The checked sum of the Amounts of asset a in vs fits in an Integer.
SumFits(vs, a) == SumAmounts(vs, a, 1) <= MaxInteger

\* A conservation check on sums that wrap around at the Integer width.
ConservedWrapping(m) ==
  \A a \in AssetsOf(m.Sources) \cup AssetsOf(m.Destinations) :
     SumAmounts(m.Sources, a, 1) % (MaxInteger + 1)
       = SumAmounts(m.Destinations, a, 1) % (MaxInteger + 1)

\* Mux validation, step 4, in checked arithmetic: a sum that overflows
\* fails the check.
Conserved(m) ==
  \A a \in AssetsOf(m.Sources) \cup AssetsOf(m.Destinations) :
     /\ SumFits(m.Sources, a)
     /\ SumFits(m.Destinations, a)
     /\ SumAmounts(m.Sources, a, 1) = SumAmounts(m.Destinations, a, 1)

\* The IDs that e's ValueSources point at.
SourceRefs(e) == {e.Sources[i].Ref : i \in 1..Len(e.Sources)}

RECURSIVE ReachFrom(_, _, _)
\* The entries visitable from the IDs in todo by traversing Results and
\* Sources.
ReachFrom(tx, todo, seen) ==
  IF todo = {} THEN seen
  ELSE LET id == CHOOSE x \in todo : TRUE
           next == IF id \in DOMAIN tx
                   THEN {tx[id].Results[i] : i \in 1..Len(tx[id].Results)}
                        \cup SourceRefs(tx[id])
                   ELSE {}
       IN ReachFrom(tx, (todo \cup next) \ (seen \cup {id}), seen \cup {id})

Visitable(tx) == ReachFrom(tx, {HeaderID}, {}) \cap DOMAIN tx

\* ValueDestination validation of Destinations[i] of entry id.
ValidateValueDestination(tx, id, i, st) ==
  LET e == tx[id]
      vd == e.Destinations[i]
  IN IF vd.Ref \notin DOMAIN tx THEN Fail(st, "StructuralError")
     ELSE LET r == tx[vd.Ref] IN
       IF r.Type \notin {"output1", "retirement1", "mux1"}
       THEN Fail(st, "TypeError")
       ELSE IF r.Type # "mux1" /\ vd.Position # 0
       THEN Fail(st, "ValueFlowError")
       ELSE IF Len(r.Sources) < vd.Position + 1
       THEN Fail(st, "ValueFlowError")
       ELSE LET rs == r.Sources[vd.Position + 1] IN
         IF /\ rs.Ref = id
            /\ rs.Position = DestinationPosition(e, i)
            /\ rs.Value = vd.Value
         THEN st
         ELSE Fail(st, "ValueFlowError")

RECURSIVE CheckValid(_, _, _)
RECURSIVE ValidateSources(_, _, _, _)
RECURSIVE ValidateDestinations(_, _, _, _)
RECURSIVE ValidateResults(_, _, _)

\* A ValueSource validation that does not compare RefDestination.Ref with
\* the ID of the current entry.
ValidateValueSourceAnyRef(tx, id, i, st) ==
  LET e == tx[id]
      vs == e.Sources[i]
  IN IF vs.Ref \notin DOMAIN tx THEN Fail(st, "StructuralError")
     ELSE LET r == tx[vs.Ref] IN
       IF r.Type \notin {"issuance1", "spend1", "mux1"}
       THEN Fail(st, "TypeError")
       ELSE LET st1 == CheckValid(tx, vs.Ref, st) IN
         IF st1.err # Accept THEN st1
         ELSE IF r.Type # "mux1" /\ vs.Position # 0
         THEN Fail(st1, "ValueFlowError")
         ELSE IF Len(r.Destinations) < vs.Position + 1
         THEN Fail(st1, "ValueFlowError")
         ELSE LET rd == r.Destinations[vs.Position + 1] IN
           IF /\ rd.Position = SourcePosition(e, i)
              /\ rd.Value = vs.Value
           THEN st1
           ELSE Fail(st1, "ValueFlowError")

\* ValueSource validation of Sources[i] of entry id.
ValidateValueSource(tx, id, i, st) ==
  LET e == tx[id]
      vs == e.Sources[i]
  IN IF vs.Ref \notin DOMAIN tx THEN Fail(st, "StructuralError")
     ELSE LET r == tx[vs.Ref] IN
       IF r.Type \notin {"issuance1", "spend1", "mux1"}
       THEN Fail(st, "TypeError")
       ELSE LET st1 == CheckValid(tx, vs.Ref, st) IN
         IF st1.err # Accept THEN st1
         ELSE IF r.Type # "mux1" /\ vs.Position # 0
         THEN Fail(st1, "ValueFlowError")
         ELSE IF Len(r.Destinations) < vs.Position + 1
         THEN Fail(st1, "ValueFlowError")
         ELSE LET rd == r.Destinations[vs.Position + 1] IN
           IF /\ rd.Ref = id
              /\ rd.Position = SourcePosition(e, i)
              /\ rd.Value = vs.Value
           THEN st1
           ELSE Fail(st1, "ValueFlowError")

ValidateSources(tx, id, i, st) ==
  IF st.err # Accept \/ i > Len(tx[id].Sources) THEN st
  ELSE ValidateSources(tx, id, i + 1, ValidateValueSource(tx, id, i, st))

ValidateDestinations(tx, id, i, st) ==
  IF st.err # Accept \/ i > Len(tx[id].Destinations) THEN st
  ELSE ValidateDestinations(tx, id, i + 1,
                            ValidateValueDestination(tx, id, i, st))

\* TxHeader validation, step 2: each of the Results is present and valid.
ValidateResults(tx, i, st) ==
  LET rs == tx[HeaderID].Results IN
  IF st.err # Accept \/ i > Len(rs) THEN st
  ELSE IF rs[i] \notin DOMAIN tx
  THEN Fail(st, "StructuralError")
  ELSE IF tx[rs[i]].Type \notin {"output1", "retirement1"}
  THEN Fail(st, "TypeError")
  ELSE ValidateResults(tx, i + 1, CheckValid(tx, rs[i], st))

ValidateTxHeader(tx, id, st) ==
  IF Len(tx[id].Results) = 0 THEN Fail(st, "StructuralError")
  ELSE ValidateResults(tx, 1, st)

\* Output validation and Retirement validation.
ValidateOutput(tx, id, st) == ValidateValueSource(tx, id, 1, st)

\* A Spend validation that does not compare the two values.
ValidateSpendAnyValue(tx, id, st) ==
  LET e == tx[id] IN
  IF e.SpentOutput \notin DOMAIN tx THEN Fail(st, "StructuralError")
  ELSE LET spent == tx[e.SpentOutput] IN
    IF spent.Type # "output1" THEN Fail(st, "TypeError")
    ELSE IF ~ValidateProgram(spent.Program, e.Arguments, tx[HeaderID].Version)
    THEN Fail(st, "ProgramError")
    ELSE ValidateValueDestination(tx, id, 1, st)

ValidateSpend(tx, id, st) ==
  LET e == tx[id] IN
  IF e.SpentOutput \notin DOMAIN tx THEN Fail(st, "StructuralError")
  ELSE LET spent == tx[e.SpentOutput] IN
    IF spent.Type # "output1" THEN Fail(st, "TypeError")
    ELSE IF ~ValidateProgram(spent.Program, e.Arguments, tx[HeaderID].Version)
    THEN Fail(st, "ProgramError")
    ELSE IF Source(spent).Value # Destination(e).Value
    THEN Fail(st, "ValueFlowError")
    ELSE ValidateValueDestination(tx, id, 1, st)

ValidateIssuance(tx, id, st) ==
  LET e == tx[id] IN
  IF AssetDefinitionHash(e.AssetDefinition) # e.Value.AssetID
  THEN Fail(st, "IssuanceAnchorError")
  ELSE IF ~ValidateProgram(e.AssetDefinition.IssuanceProgram, e.Arguments,
                           tx[HeaderID].Version)
  THEN Fail(st, "ProgramError")
  ELSE IF e.Anchor \notin DOMAIN tx THEN Fail(st, "StructuralError")
  ELSE IF tx[e.Anchor].Type \notin {"nonce", "spend1"}
  THEN Fail(st, "TypeError")
  ELSE LET st1 == CheckValid(tx, e.Anchor, st) IN
    IF st1.err # Accept THEN st1
    ELSE ValidateValueDestination(tx, id, 1, st1)

\* The Nonce's TimeRange is resolved and validated.
ValidateNonceTimeRange(tx, id, st) ==
  LET e == tx[id] IN
  IF e.TimeRange \notin DOMAIN tx THEN Fail(st, "StructuralError")
  ELSE IF tx[e.TimeRange].Type # "timerange" THEN Fail(st, "TypeError")
  ELSE CheckValid(tx, e.TimeRange, st)

\* A Nonce validation that asks only that the named Issuance is visitable.
ValidateNonceAnyAnchor(tx, id, st) ==
  LET e == tx[id] IN
  IF ~ValidateProgram(e.Program, e.Arguments, tx[HeaderID].Version)
  THEN Fail(st, "ProgramError")
  ELSE IF \/ e.Issuance \notin Visitable(tx)
          \/ tx[e.Issuance].Type # "issuance1"
  THEN Fail(st, "IssuanceAnchorError")
  ELSE ValidateNonceTimeRange(tx, id, st)

ValidateNonce(tx, id, st) ==
  LET e == tx[id] IN
  IF ~ValidateProgram(e.Program, e.Arguments, tx[HeaderID].Version)
  THEN Fail(st, "ProgramError")
  ELSE IF \/ e.Issuance \notin Visitable(tx)
          \/ tx[e.Issuance].Type # "issuance1"
          \/ tx[e.Issuance].Anchor # id
  THEN Fail(st, "IssuanceAnchorError")
  ELSE ValidateNonceTimeRange(tx, id, st)

\* A TimeRange validation that leaves Maxtime out.
ValidateTimeRangeNoMaxtime(tx, id, st) ==
  IF tx[id].Mintime <= tx[HeaderID].Mintime THEN st
  ELSE Fail(st, "TimeRangeError")

ValidateTimeRange(tx, id, st) ==
  LET e == tx[id]
      h == tx[HeaderID]
  IN IF /\ e.Mintime <= h.Mintime
        /\ (e.Maxtime = 0 \/ e.Maxtime >= h.Maxtime)
     THEN st
     ELSE Fail(st, "TimeRangeError")

ValidateMux(tx, id, st) ==
  LET e == tx[id] IN
  IF ~ValidateProgram(e.Program, e.Arguments, tx[HeaderID].Version)
  THEN Fail(st, "ProgramError")
  ELSE LET st1 == ValidateSources(tx, id, 1, st)
           st2 == ValidateDestinations(tx, id, 1, st1)
       IN IF st2.err # Accept THEN st2
          ELSE IF ~Conserved(e) THEN Fail(st2, "ConservationError")
          ELSE st2

\* The rules of the entry's variant.
ValidateEntry(tx, id, st) ==
  LET t == tx[id].Type IN
  CASE t = "txheader" -> ValidateTxHeader(tx, id, st)
    [] t \in {"output1", "retirement1"} -> ValidateOutput(tx, id, st)
    [] t = "spend1" -> ValidateSpend(tx, id, st)
    [] t = "issuance1" -> ValidateIssuance(tx, id, st)
    [] t = "nonce" -> ValidateNonce(tx, id, st)
    [] t = "timerange" -> ValidateTimeRange(tx, id, st)
    [] t = "mux1" -> ValidateMux(tx, id, st)

\* Validation of entry id.  An entry validated before is not validated
\* again; the first error ends the validation.
CheckValid(tx, id, st) ==
  IF st.err # Accept \/ id \in st.cache THEN st
  ELSE IF ~ExtHashOK(tx, tx[id]) THEN Fail(st, "ExtensionError")
  ELSE LET r == ValidateEntry(tx, id, st) IN
    IF r.err = Accept THEN [r EXCEPT !.cache = @ \cup {id}] ELSE r

\* Validation of a transaction, from its header.
ValidateTx(tx) == CheckValid(tx, HeaderID, [err |-> Accept, cache |-> {}])

\* ------------------------------------------------- application to the state
\* Time bounds that leave Maxtime out.
TimeBoundsNoMaxtime(h, t) == h.Mintime = 0 \/ h.Mintime < t

\* Time bounds that do not let a Mintime of zero through.
TimeBoundsStrict(h, t) ==
  /\ h.Mintime < t
  /\ h.Maxtime = 0 \/ h.Maxtime > t

\* TxHeader application: the header's time bounds against the timestamp t of
\* the block that includes the transaction.
TimeBoundsOK(h, t) ==
  /\ h.Mintime = 0 \/ h.Mintime < t
  /\ h.Maxtime = 0 \/ h.Maxtime > t

\* A Spend application that does not look for the output in the UTXO set.
ApplySpendUnchecked(e, cs) ==
  [ok |-> TRUE, utxo |-> cs.utxo \ {e.SpentOutput}, nonces |-> cs.nonces]

\* Spend application: the spent output must be in the UTXO set and leaves it.
ApplySpend(e, cs) ==
  IF e.SpentOutput \in cs.utxo
  THEN [ok |-> TRUE, utxo |-> cs.utxo \ {e.SpentOutput}, nonces |-> cs.nonces]
  ELSE [ok |-> FALSE, utxo |-> cs.utxo, nonces |-> cs.nonces]

\* An Output application that assigns the UTXO set instead of adding to it.
ApplyOutputAssigns(id, cs) ==
  [ok |-> TRUE, utxo |-> {id}, nonces |-> cs.nonces]

\* Output application: the Output's ID joins the UTXO set.
ApplyOutput(id, cs) ==
  [ok |-> TRUE, utxo |-> cs.utxo \cup {id}, nonces |-> cs.nonces]

\* A Nonce application that does not look for the ID in the Nonce set.
ApplyNonceUnchecked(id, cs) ==
  [ok |-> TRUE, utxo |-> cs.utxo, nonces |-> cs.nonces \cup {id}]

\* Nonce application: the Nonce's ID must be new to the Nonce set and joins it.
ApplyNonce(id, cs) ==
  IF id \notin cs.nonces
  THEN [ok |-> TRUE, utxo |-> cs.utxo, nonces |-> cs.nonces \cup {id}]
  ELSE [ok |-> FALSE, utxo |-> cs.utxo, nonces |-> cs.nonces]

ApplyTxHeader(e, cs, t) ==
  [ok |-> TimeBoundsOK(e, t), utxo |-> cs.utxo, nonces |-> cs.nonces]

\* The effect of entry id of tx on chain state cs in a block of timestamp t.
ApplyEntry(tx, id, cs, t) ==
  LET e == tx[id] IN
  CASE e.Type = "spend1" -> ApplySpend(e, cs)
    [] e.Type = "output1" -> ApplyOutput(id, cs)
    [] e.Type = "nonce" -> ApplyNonce(id, cs)
    [] e.Type = "txheader" -> ApplyTxHeader(e, cs, t)

\* The entries of a validated transaction that act on the chain state: the
\* second pass goes over the entries that validation went through.
Effects(tx, visited) ==
  {id \in visited : tx[id].Type \in {"spend1", "output1", "nonce", "txheader"}}

\* A rollback that restores the UTXO set and forgets the Nonce set.
RolledBackUTXOOnly(start, cs) == [utxo |-> start.utxo, nonces |-> cs.nonces]

\* The chain state that a failed application leaves: the one it started from.
RolledBack(start, cs) == start

\* The place of an entry in the order in which section 4.6 lists the
\* effects: UTXO removals, UTXO additions, Nonce insertions, time bounds.
ListedRank(e) ==
  CASE e.Type = "spend1" -> 1
    [] e.Type = "output1" -> 2
    [] e.Type = "nonce" -> 3
    [] e.Type = "txheader" -> 4

RECURSIVE ApplyListed(_, _, _, _, _)
\* The application of the effects ids of tx in the listed order: the outcome
\* and the chain state it leaves, which is start when an effect fails.
ApplyListed(tx, ids, start, cs, t) ==
  IF ids = {} THEN [ok |-> TRUE, utxo |-> cs.utxo, nonces |-> cs.nonces]
  ELSE LET id == CHOOSE x \in ids :
                   \A y \in ids : ListedRank(tx[x]) <= ListedRank(tx[y])
           r == ApplyEntry(tx, id, cs, t)
       IN IF r.ok
          THEN ApplyListed(tx, ids \ {id}, start,
                           [utxo |-> r.utxo, nonces |-> r.nonces], t)
          ELSE [ok |-> FALSE, utxo |-> start.utxo, nonces |-> start.nonces]

\* ------------------------------------------------ assembling a transaction
\* A transaction is assembled outside the validator.  The model starts from
\* a well-formed transaction and changes one field at a time.
Positions == {0, 1}

IDsFor(t) == DOMAIN t \cup {AbsentID}

\* The pointers in e's body.  An ID is the hash of its entry's body, so no
\* entry can reach itself through body pointers.
BodyRefs(e) ==
  SourceRefs(e) \cup {e.Results[i] : i \in 1..Len(e.Results)}
  \cup ({e.SpentOutput, e.Anchor, e.TimeRange} \ {Nil})

RECURSIVE BodyReach(_, _, _)
BodyReach(t, todo, seen) ==
  IF todo = {} THEN seen
  ELSE LET id == CHOOSE x \in todo : TRUE
           next == IF id \in DOMAIN t THEN BodyRefs(t[id]) ELSE {}
       IN BodyReach(t, (todo \cup next) \ (seen \cup {id}), seen \cup {id})

Acyclic(t) == \A id \in DOMAIN t : id \notin BodyReach(t, BodyRefs(t[id]), {})

\* A ValueSource or ValueDestination with one field changed.
EdgeChoices(t, v) ==
  {[v EXCEPT !.Ref = r] : r \in IDsFor(t)}
  \cup {[v EXCEPT !.Value.Amount = n] : n \in 1..MaxAmount}
  \cup {[v EXCEPT !.Value.AssetID = a] : a \in AssetIDs}
  \cup {[v EXCEPT !.Position = q] : q \in Positions}

ProgramChoices(P) ==
  {[P EXCEPT !.VMVersion = v] : v \in 1..MaxVersion}
  \cup {[P EXCEPT !.Script = c] : c \in Scripts}

\* Entry id of t with one field changed.
EntryChoices(t, id) ==
  LET e == t[id] IN
  UNION {{[e EXCEPT !.Sources[i] = v] : v \in EdgeChoices(t, e.Sources[i])}
           : i \in 1..Len(e.Sources)}
  \cup UNION {{[e EXCEPT !.Destinations[i] = v]
                 : v \in EdgeChoices(t, e.Destinations[i])}
                : i \in 1..Len(e.Destinations)}
  \cup {[e EXCEPT !.ExtHash = x] : x \in {0, 1}}
  \cup (CASE e.Type = "txheader" ->
               {[e EXCEPT !.Version = v] : v \in 1..MaxVersion}
               \cup {[e EXCEPT !.Mintime = m] : m \in 0..MaxTime}
               \cup {[e EXCEPT !.Maxtime = m] : m \in 0..MaxTime}
               \cup {[e EXCEPT !.Results = <<>>]}
               \cup UNION {{[e EXCEPT !.Results[i] = r] : r \in IDsFor(t)}
                             : i \in 1..Len(e.Results)}
          [] e.Type = "output1" ->
               {[e EXCEPT !.Program = P] : P \in ProgramChoices(e.Program)}
          [] e.Type = "retirement1" -> {}
          [] e.Type = "spend1" ->
               {[e EXCEPT !.SpentOutput = r] : r \in IDsFor(t)}
               \cup {[e EXCEPT !.Arguments = a] : a \in ArgLists}
          [] e.Type = "issuance1" ->
               {[e EXCEPT !.Anchor = r] : r \in IDsFor(t)}
               \cup {[e EXCEPT !.Value.Amount = n] : n \in 1..MaxAmount}
               \cup {[e EXCEPT !.Value.AssetID = a] : a \in AssetIDs}
               \cup {[e EXCEPT !.AssetDefinition.Tag = d] : d \in {"defA", "defB"}}
               \cup {[e EXCEPT !.AssetDefinition.IssuanceProgram = P]
                       : P \in ProgramChoices(e.AssetDefinition.IssuanceProgram)}
               \cup {[e EXCEPT !.Arguments = a] : a \in ArgLists}
          [] e.Type = "nonce" ->
               {[e EXCEPT !.Program = P] : P \in ProgramChoices(e.Program)}
               \cup {[e EXCEPT !.Arguments = a] : a \in ArgLists}
               \cup {[e EXCEPT !.TimeRange = r] : r \in IDsFor(t)}
               \cup {[e EXCEPT !.Issuance = r] : r \in IDsFor(t)}
          [] e.Type = "timerange" ->
               {[e EXCEPT !.Mintime = m] : m \in 0..MaxTime}
               \cup {[e EXCEPT !.Maxtime = m] : m \in 0..MaxTime}
          [] e.Type = "mux1" ->
               {[e EXCEPT !.Program = P] : P \in ProgramChoices(e.Program)}
               \cup {[e EXCEPT !.Arguments = a] : a \in ArgLists})

\* The transactions that differ from t in the Value of one value-flow edge,
\* changed alike in the ValueDestination and in the ValueSource it selects.
EdgeChanged(t) ==
  {u \in UNION {UNION {{[t EXCEPT ![id].Destinations[i].Value = v,
                                 ![t[id].Destinations[i].Ref]
                                    .Sources[t[id].Destinations[i].Position + 1]
                                    .Value = v]
                         : v \in {AssetAmount(a, n) : a \in AssetIDs,
                                                     n \in 1..MaxAmount}}
                        : i \in {j \in 1..Len(t[id].Destinations) :
                                  /\ t[id].Destinations[j].Ref \in DOMAIN t
                                  /\ t[id].Destinations[j].Position + 1 <=
                                       Len(t[t[id].Destinations[j].Ref].Sources)}}
                  : id \in DOMAIN t}
     : u # t}

\* The transactions one field away from t.
Perturbed(t) ==
  {u \in UNION {{[t EXCEPT ![id] = e] : e \in EntryChoices(t, id)}
                  : id \in DOMAIN t}
     : u # t /\ Acyclic(u)}

\* ------------------------------------------------------------ state machine
VARIABLES
  tx,         \* the transaction at hand: its Entries, by entry ID
  changed,    \* what was changed while assembling tx: "edge", "field"
  phase,      \* where tx is on its way from assembly to the chain state
  result,     \* what validation returned: Accept or the error
  validated,  \* the IDs of the entries that validation went through
  blockTime,  \* timestamp of the block that includes tx
  utxo,       \* the UTXO set
  nonces,     \* the Nonce set
  before,     \* the chain state when the application of tx started
  todo,       \* entries of tx whose effect is still to be applied
  outcome,    \* how the application of tx ended: "ok" or "StateError"
  ntx,        \* transactions submitted so far
  added,      \* per Output ID: times it was added to the UTXO set for good
  spent,      \* per Output ID: committed Spends of it
  nonceUses,  \* per Nonce ID: committed transactions that applied it
  stack,      \* validation in steps: the entries being validated, innermost last
  runs,       \* validation in steps: per entry ID, times its rules were started
  isGenerator,   \* core: config.IsGenerator
  localHeight,   \* core: chain.Height()
  fetched,       \* core: the generator height and fetch time last cached
  info,          \* core: what leaderInfo last returned
  raftInit,      \* core: sinkdb's raft is initialized
  sdbClusterID,  \* core: the value under clusterIDKey in sinkdb, or Nil
  pgCluster,     \* core: the ids in the rows of the Postgres cluster table
  calls,         \* core: per process, the call it is in and its locals
  sdbWrites,     \* core: successful writes of clusterIDKey
  inserted       \* core: the ids inserted into the cluster table

vars == <<tx, changed, phase, result, validated, blockTime, utxo, nonces,
          before, todo, outcome, ntx, added, spent, nonceUses, stack, runs,
          isGenerator, localHeight, fetched, info, raftInit, sdbClusterID,
          pgCluster, calls, sdbWrites, inserted>>

infoVars == <<isGenerator, localHeight, fetched, info>>

clusterVars == <<raftInit, sdbClusterID, pgCluster, calls, sdbWrites, inserted>>

coreVars == <<infoVars, clusterVars>>

walkVars == <<stack, runs>>

txVars == <<tx, changed, phase, result, validated, ntx, stack, runs>>

chainVars == <<utxo, nonces, before, todo, outcome, added, spent, nonceUses,
               blockTime>>

ChainState == [utxo |-> utxo, nonces |-> nonces]

\* ------------------------------------------------------------- core, at rest
MaxHeight == 2

MaxClock == 2

MaxProcs == 2

\* The processes that call into the cluster-ID code.
Procs == 1..MaxProcs

\* A process that is in no call.
NoCall ==
  [fn |-> "none", pc |-> "idle", found |-> FALSE, sdbVal |-> Nil,
   pgVal |-> Nil, sdbErr |-> "unread", pgErr |-> "unread",
   clusterID |-> Nil, ret |-> "none", wrote |-> {}]

\* leaderInfo has not been called.
NoInfo ==
  [called |-> FALSE, is_generator |-> FALSE, block_height |-> 0,
   generator_block_height |-> 0, generator_block_height_fetched_at |-> 0,
   fetchHeight |-> 0, fetchTime |-> 0]

\* The core before any of its calls, with empty stores.
CoreAtRest ==
  /\ isGenerator = FALSE
  /\ localHeight = 0
  /\ fetched = [height |-> 0, time |-> 0]
  /\ info = NoInfo
  /\ raftInit = FALSE
  /\ sdbClusterID = Nil
  /\ pgCluster = {}
  /\ calls = [p \in Procs |-> NoCall]
  /\ sdbWrites = 0
  /\ inserted = {}

\* The well-formed transactions, under each transaction version.
StartTxs == {[t EXCEPT ![HeaderID].Version = v] : t \in BaseTxs, v \in 1..MaxVersion}

Init ==
  /\ tx \in StartTxs
  /\ changed = {}
  /\ phase = "assemble"
  /\ result = "none"
  /\ validated = {}
  /\ blockTime = 0
  /\ utxo \in {{}, {"P1"}}
  /\ nonces = {}
  /\ before = [utxo |-> utxo, nonces |-> nonces]
  /\ todo = {}
  /\ outcome = "none"
  /\ ntx = 1
  /\ added = [o \in OutputIDs |-> IF o \in utxo THEN 1 ELSE 0]
  /\ spent = [o \in OutputIDs |-> 0]
  /\ nonceUses = [n \in NonceIDs |-> 0]
  /\ stack = <<>>
  /\ runs = [id \in AllIDs |-> 0]
  /\ CoreAtRest

\* The value of one edge of the transaction is changed, at both its ends.
ChangeEdge ==
  /\ phase = "assemble"
  /\ changed = {}
  /\ tx' \in EdgeChanged(tx)
  /\ changed' = {"edge"}
  /\ UNCHANGED <<phase, result, validated, ntx>>
  /\ UNCHANGED chainVars
  /\ UNCHANGED <<walkVars, coreVars>>

\* One field of the transaction is changed.
ChangeField ==
  /\ phase = "assemble"
  /\ "field" \notin changed
  /\ tx' \in Perturbed(tx)
  /\ changed' = changed \cup {"field"}
  /\ UNCHANGED <<phase, result, validated, ntx>>
  /\ UNCHANGED chainVars
  /\ UNCHANGED <<walkVars, coreVars>>

\* validate(tx): the whole validation, which touches no chain state.
Validate ==
  /\ phase = "assemble"
  /\ LET st == ValidateTx(tx) IN
       /\ result' = st.err
       /\ validated' = st.cache
       /\ phase' = IF st.err = Accept THEN "accepted" ELSE "rejected"
  /\ UNCHANGED <<tx, changed, ntx>>
  /\ UNCHANGED chainVars
  /\ UNCHANGED <<walkVars, coreVars>>

\* An application that starts whatever validation returned.
MayApplyUnvalidated(ph, res) == ph \in {"accepted", "rejected"}

\* When the application of a transaction may start.
MayApply(ph, res) == ph = "accepted" /\ res = Accept

\* The application of an accepted transaction starts, inside a chain-state
\* transaction, in a block of timestamp t.
Begin ==
  /\ MayApply(phase, result)
  /\ phase' = "applying"
  /\ before' = ChainState
  /\ todo' = Effects(tx, validated)
  /\ blockTime' \in 0..MaxTime
  /\ UNCHANGED <<tx, changed, result, validated, utxo, nonces, outcome, ntx,
                 added, spent, nonceUses>>
  /\ UNCHANGED <<walkVars, coreVars>>

\* The effect of one entry is applied; the entries come in any order.
ApplyEffect ==
  /\ phase = "applying"
  /\ \E id \in todo :
       LET r == ApplyEntry(tx, id, ChainState, blockTime) IN
         /\ utxo' = r.utxo
         /\ nonces' = r.nonces
         /\ todo' = todo \ {id}
         /\ phase' = IF r.ok THEN "applying" ELSE "failed"
         /\ outcome' = IF r.ok THEN outcome ELSE "StateError"
  /\ UNCHANGED <<tx, changed, result, validated, blockTime, before, ntx,
                 added, spent, nonceUses>>
  /\ UNCHANGED <<walkVars, coreVars>>

\* Every effect went through: commit().
Commit ==
  /\ phase = "applying"
  /\ todo = {}
  /\ phase' = "committed"
  /\ outcome' = "ok"
  /\ added' = [o \in OutputIDs |->
                 added[o] + IF o \in validated /\ tx[o].Type = "output1"
                            THEN 1 ELSE 0]
  /\ spent' = [o \in OutputIDs |->
                 spent[o] + Cardinality({s \in validated :
                    tx[s].Type = "spend1" /\ tx[s].SpentOutput = o})]
  /\ nonceUses' = [n \in NonceIDs |->
                     nonceUses[n] + IF n \in validated /\ tx[n].Type = "nonce"
                                    THEN 1 ELSE 0]
  /\ UNCHANGED <<tx, changed, result, validated, blockTime, utxo, nonces,
                 before, todo, ntx>>
  /\ UNCHANGED <<walkVars, coreVars>>

\* An effect failed: rollback().
Rollback ==
  /\ phase = "failed"
  /\ phase' = "rolledback"
  /\ utxo' = RolledBack(before, ChainState).utxo
  /\ nonces' = RolledBack(before, ChainState).nonces
  /\ UNCHANGED <<tx, changed, result, validated, blockTime, before, todo,
                 outcome, ntx, added, spent, nonceUses>>
  /\ UNCHANGED <<walkVars, coreVars>>

\* The next transaction arrives.
NextTx ==
  /\ phase \in {"rejected", "committed", "rolledback"}
  /\ ntx < MaxTxs
  /\ ntx' = ntx + 1
  /\ tx' \in StartTxs
  /\ changed' = {}
  /\ phase' = "assemble"
  /\ result' = "none"
  /\ validated' = {}
  /\ before' = ChainState
  /\ todo' = {}
  /\ outcome' = "none"
  /\ blockTime' = 0
  /\ UNCHANGED <<utxo, nonces, added, spent, nonceUses>>
  /\ UNCHANGED <<walkVars, coreVars>>

Next ==
  \/ ChangeField
  \/ Validate
  \/ Begin
  \/ ApplyEffect
  \/ Commit
  \/ Rollback
  \/ NextTx

Spec == Init /\ [][Next]_vars

\* Validation alone, on transactions with an edge and a field changed.
NextValidate ==
  \/ ChangeEdge
  \/ ChangeField
  \/ Validate

\* The transactions validation starts from: those of the pipeline, the
\* transaction of two issuances and the Mux of overflowing sums, in every
\* header version.
StartTxsValidate ==
  StartTxs
  \cup {[t EXCEPT ![HeaderID].Version = v] :
          t \in {TxTwoIssue, TxBigMux}, v \in 1..MaxVersion}

InitValidate ==
  /\ tx \in StartTxsValidate
  /\ changed = {}
  /\ phase = "assemble"
  /\ result = "none"
  /\ validated = {}
  /\ blockTime = 0
  /\ utxo = {}
  /\ nonces = {}
  /\ before = [utxo |-> utxo, nonces |-> nonces]
  /\ todo = {}
  /\ outcome = "none"
  /\ ntx = 1
  /\ added = [o \in OutputIDs |-> 0]
  /\ spent = [o \in OutputIDs |-> 0]
  /\ nonceUses = [n \in NonceIDs |-> 0]
  /\ stack = <<>>
  /\ runs = [id \in AllIDs |-> 0]
  /\ CoreAtRest

SpecValidate == InitValidate /\ [][NextValidate]_vars

\* ------------------------------------------------- validation, step by step
\* The entries whose validation the rules of entry id call for, in the
\* order of the calls.
Children(t, id) ==
  LET e == t[id] IN
  CASE e.Type = "txheader" -> e.Results
    [] e.Type \in {"output1", "retirement1", "mux1"} ->
         [i \in 1..Len(e.Sources) |-> e.Sources[i].Ref]
    [] e.Type = "issuance1" -> <<e.Anchor>>
    [] e.Type = "nonce" -> <<e.TimeRange>>
    [] OTHER -> <<>>

\* The entry types a pointer out of an entry of type ty may name.
AllowedTypes(ty) ==
  CASE ty = "txheader" -> {"output1", "retirement1"}
    [] ty \in {"output1", "retirement1", "mux1"} -> {"issuance1", "spend1", "mux1"}
    [] ty = "issuance1" -> {"nonce", "spend1"}
    [] ty = "nonce" -> {"timerange"}
    [] OTHER -> {}

\* A memo that records nothing.
MemoForgets(cache, id) == cache

\* The memo of validated entries, with entry id recorded.
Memo(cache, id) == cache \cup {id}

\* The rules of entry id that are its own, its children being validated.
OwnRules(t, id) == ValidateEntry(t, id, [err |-> Accept, cache |-> DOMAIN t]).err

Top == stack[Len(stack)]

\* Validation ends with result r.
WalkEnds(r) ==
  /\ stack' = <<>>
  /\ result' = r
  /\ phase' = "walked"

\* validate(tx) is called: the rules of the header are started.
WalkBegin ==
  /\ phase = "assemble"
  /\ runs' = [runs EXCEPT ![HeaderID] = @ + 1]
  /\ validated' = {}
  /\ IF ExtHashOK(tx, tx[HeaderID])
     THEN /\ stack' = <<[id |-> HeaderID, next |-> 1]>>
          /\ phase' = "walking"
          /\ result' = result
     ELSE WalkEnds("ExtensionError")
  /\ UNCHANGED <<tx, changed, ntx>>
  /\ UNCHANGED <<chainVars, coreVars>>

\* The rules of the innermost entry call for the validation of its next
\* child: one in the memo is passed over, one that is absent or of a wrong
\* type or with an ExtHash at version 1 ends validation, any other has its
\* rules started.
WalkCall ==
  /\ phase = "walking"
  /\ Top.next <= Len(Children(tx, Top.id))
  /\ LET c == Children(tx, Top.id)[Top.next]
         up == [stack EXCEPT ![Len(stack)].next = @ + 1]
     IN IF c \in validated
        THEN /\ stack' = up
             /\ UNCHANGED <<phase, result, runs>>
        ELSE IF c \notin DOMAIN tx
        THEN WalkEnds("StructuralError") /\ UNCHANGED runs
        ELSE IF tx[c].Type \notin AllowedTypes(tx[Top.id].Type)
        THEN WalkEnds("TypeError") /\ UNCHANGED runs
        ELSE /\ runs' = [runs EXCEPT ![c] = @ + 1]
             /\ IF ExtHashOK(tx, tx[c])
                THEN /\ stack' = Append(up, [id |-> c, next |-> 1])
                     /\ UNCHANGED <<phase, result>>
                ELSE WalkEnds("ExtensionError")
  /\ UNCHANGED <<tx, changed, validated, ntx>>
  /\ UNCHANGED <<chainVars, coreVars>>

\* The children of the innermost entry are validated: its own rules decide,
\* and an entry that passes is recorded in the memo.
WalkReturn ==
  /\ phase = "walking"
  /\ Top.next > Len(Children(tx, Top.id))
  /\ LET r == OwnRules(tx, Top.id) IN
       IF r # Accept
       THEN WalkEnds(r) /\ UNCHANGED validated
       ELSE /\ validated' = Memo(validated, Top.id)
            /\ IF Len(stack) = 1
               THEN WalkEnds(Accept)
               ELSE /\ stack' = SubSeq(stack, 1, Len(stack) - 1)
                    /\ UNCHANGED <<phase, result>>
  /\ UNCHANGED <<tx, changed, runs, ntx>>
  /\ UNCHANGED <<chainVars, coreVars>>

NextWalk ==
  \/ ChangeField
  \/ WalkBegin
  \/ WalkCall
  \/ WalkReturn

\* Validation is one sequential call that runs until it returns.
SpecWalk == InitValidate /\ [][NextWalk]_vars /\ WF_vars(WalkBegin \/ WalkCall \/ WalkReturn)


\* ------------------------------------------------------------- cluster ID
\* The transaction side of the state, at rest while the core's calls run.
TxAtRest ==
  /\ tx = TxIssue
  /\ changed = {}
  /\ phase = "assemble"
  /\ result = "none"
  /\ validated = {}
  /\ blockTime = 0
  /\ utxo = {}
  /\ nonces = {}
  /\ before = [utxo |-> utxo, nonces |-> nonces]
  /\ todo = {}
  /\ outcome = "none"
  /\ ntx = 1
  /\ added = [o \in OutputIDs |-> 0]
  /\ spent = [o \in OutputIDs |-> 0]
  /\ nonceUses = [n \in NonceIDs |-> 0]
  /\ stack = <<>>
  /\ runs = [id \in AllIDs |-> 0]

\* The cluster IDs the stores may hold from before.
StoredIDs == {"c1", "c2"}

\* The 8 random bytes rand.Read may give; one of them is also a stored ID.
FreshIDs == {"c2", "c3"}

\* The stores before the calls: an uninitialized raft holds no key, and
\* Postgres holds its row, a row from another cluster, or was reset.
InitCluster ==
  /\ TxAtRest
  /\ isGenerator = FALSE
  /\ localHeight = 0
  /\ fetched = [height |-> 0, time |-> 0]
  /\ info = NoInfo
  /\ raftInit \in BOOLEAN
  /\ sdbClusterID \in IF raftInit THEN {Nil} \cup StoredIDs ELSE {Nil}
  /\ pgCluster \in {{}} \cup {{c} : c \in StoredIDs}
  /\ calls = [p \in Procs |-> NoCall]
  /\ sdbWrites = 0
  /\ inserted = {}

\* A write of the key that does not look at what the key holds.
SdbExecSet(cur, id) == [ok |-> TRUE, value |-> id]

\* sdb.Exec(IfNotExists(clusterIDKey), Set(clusterIDKey, id)): one
\* conditional write, which fails when the key exists.
SdbExec(cur, id) ==
  IF cur = Nil
  THEN [ok |-> TRUE, value |-> id]
  ELSE [ok |-> FALSE, value |-> cur]

\* A decision that sets a new ID whenever Postgres has no row.
VerifyDecisionLenient(found, sdbVal, noRows, pgVal) ==
  IF noRows THEN "set"
  ELSE IF pgVal = sdbVal THEN "nil"
  ELSE "corrupted"

\* What VerifyClusterID does with the two IDs it looked up.
VerifyDecision(found, sdbVal, noRows, pgVal) ==
  IF noRows /\ ~found THEN "set"
  ELSE IF pgVal = sdbVal THEN "nil"
  ELSE "corrupted"

\* The call of process p returns r.
Returns(p, r) == calls' = [calls EXCEPT ![p].pc = "done", ![p].ret = r]

\* Process p calls VerifyClusterID.
CallVerify(p) ==
  /\ calls[p].pc = "idle"
  /\ calls' = [calls EXCEPT ![p].fn = "verify", ![p].pc = "get"]
  /\ UNCHANGED <<raftInit, sdbClusterID, pgCluster, sdbWrites, inserted>>
  /\ UNCHANGED <<txVars, chainVars, infoVars>>

\* Process p calls initCluster.
CallInit(p) ==
  /\ calls[p].pc = "idle"
  /\ calls' = [calls EXCEPT ![p].fn = "init", ![p].pc = "raft"]
  /\ UNCHANGED <<raftInit, sdbClusterID, pgCluster, sdbWrites, inserted>>
  /\ UNCHANGED <<txVars, chainVars, infoVars>>

\* initCluster initializes raft and adds its own address as a member;
\* either may fail.
InitRaft(p) ==
  /\ calls[p].pc = "raft"
  /\ \E ok \in BOOLEAN :
       IF ok
       THEN /\ raftInit' = TRUE
            /\ calls' = [calls EXCEPT ![p].pc = "rand"]
       ELSE /\ Returns(p, "error")
            /\ raftInit' \in {raftInit, TRUE}
  /\ UNCHANGED <<sdbClusterID, pgCluster, sdbWrites, inserted>>
  /\ UNCHANGED <<txVars, chainVars, infoVars>>

\* VerifyClusterID looks the key up in sinkdb.
VerifyGet(p) ==
  /\ calls[p].pc = "get"
  /\ \E ok \in BOOLEAN :
       IF ~ok
       THEN calls' = [calls EXCEPT ![p].pc = "done", ![p].ret = "error",
                                   ![p].sdbErr = "other"]
       ELSE IF ~raftInit
       THEN calls' = [calls EXCEPT ![p].pc = "done", ![p].ret = "nil",
                                   ![p].sdbErr = "ErrUninitialized"]
       ELSE calls' = [calls EXCEPT ![p].pc = "query",
                                   ![p].sdbErr = "none",
                                   ![p].found = sdbClusterID # Nil,
                                   ![p].sdbVal = sdbClusterID]
  /\ UNCHANGED <<raftInit, sdbClusterID, pgCluster, sdbWrites, inserted>>
  /\ UNCHANGED <<txVars, chainVars, infoVars>>

\* VerifyClusterID reads a row of the cluster table and decides.
VerifyQuery(p) ==
  /\ calls[p].pc = "query"
  /\ \E ok \in BOOLEAN :
       IF ~ok
       THEN calls' = [calls EXCEPT ![p].pc = "done", ![p].ret = "error",
                                   ![p].pgErr = "other"]
       ELSE \E row \in IF pgCluster = {} THEN {Nil} ELSE pgCluster :
              LET d == VerifyDecision(calls[p].found, calls[p].sdbVal,
                                      row = Nil, row)
                  c == [calls[p] EXCEPT !.pgVal = row, !.pgErr =
                         IF row = Nil THEN "ErrNoRows" ELSE "none"]
              IN calls' = [calls EXCEPT ![p] =
                   CASE d = "set" -> [c EXCEPT !.pc = "rand"]
                     [] d = "nil" -> [c EXCEPT !.pc = "done", !.ret = "nil"]
                     [] OTHER -> [c EXCEPT !.pc = "done", !.ret = "corrupted"]]
  /\ UNCHANGED <<raftInit, sdbClusterID, pgCluster, sdbWrites, inserted>>
  /\ UNCHANGED <<txVars, chainVars, infoVars>>

\* setClusterID draws its 8 random bytes.
SetRand(p) ==
  /\ calls[p].pc = "rand"
  /\ \/ Returns(p, "error")
     \/ \E id \in FreshIDs :
          calls' = [calls EXCEPT ![p].pc = "exec", ![p].clusterID = id]
  /\ UNCHANGED <<raftInit, sdbClusterID, pgCluster, sdbWrites, inserted>>
  /\ UNCHANGED <<txVars, chainVars, infoVars>>

\* setClusterID writes the key to sinkdb if the key does not exist.
SetExec(p) ==
  /\ calls[p].pc = "exec"
  /\ \E ok \in BOOLEAN :
       LET r == SdbExec(sdbClusterID, calls[p].clusterID) IN
       IF ok /\ r.ok
       THEN /\ sdbClusterID' = r.value
            /\ sdbWrites' = sdbWrites + 1
            /\ calls' = [calls EXCEPT ![p].pc = "insert",
                                      ![p].wrote = @ \cup {"sinkdb"}]
       ELSE /\ Returns(p, "error")
            /\ UNCHANGED <<sdbClusterID, sdbWrites>>
  /\ UNCHANGED <<raftInit, pgCluster, inserted>>
  /\ UNCHANGED <<txVars, chainVars, infoVars>>

\* setClusterID inserts its ID into the cluster table.
SetInsert(p) ==
  /\ calls[p].pc = "insert"
  /\ \E ok \in BOOLEAN :
       IF ok
       THEN /\ pgCluster' = pgCluster \cup {calls[p].clusterID}
            /\ inserted' = inserted \cup {calls[p].clusterID}
            /\ calls' = [calls EXCEPT ![p].pc = "done", ![p].ret = "nil",
                                      ![p].wrote = @ \cup {"pg"}]
       ELSE /\ Returns(p, "error")
            /\ UNCHANGED <<pgCluster, inserted>>
  /\ UNCHANGED <<raftInit, sdbClusterID, sdbWrites>>
  /\ UNCHANGED <<txVars, chainVars, infoVars>>

NextCluster ==
  \E p \in Procs :
    \/ CallVerify(p)
    \/ CallInit(p)
    \/ InitRaft(p)
    \/ VerifyGet(p)
    \/ VerifyQuery(p)
    \/ SetRand(p)
    \/ SetExec(p)
    \/ SetInsert(p)

SpecCluster == InitCluster /\ [][NextCluster]_vars


\* ------------------------------------------------------------- leaderInfo
\* Times: 0 is the zero time, which time.Now() never gives.
Clock == 0..MaxClock

Heights == 0..MaxHeight

\* What fetch.GeneratorHeight() may hold: nothing fetched yet (height 0 at
\* the zero time), or a height with the time it was fetched at.
FetchedStates ==
  {[height |-> 0, time |-> 0]}
  \cup [height : Heights, time : Clock \ {0}]

InitInfo ==
  /\ TxAtRest
  /\ isGenerator \in BOOLEAN
  /\ localHeight \in Heights
  /\ fetched \in IF isGenerator THEN {[height |-> 0, time |-> 0]}
                 ELSE FetchedStates
  /\ info = NoInfo
  /\ raftInit = FALSE
  /\ sdbClusterID = Nil
  /\ pgCluster = {}
  /\ calls = [p \in Procs |-> NoCall]
  /\ sdbWrites = 0
  /\ inserted = {}

\* The generator height shown is the cached one, whatever the local height.
GeneratorHeightCached(isGen, local, fetchHeight, fetchTime) ==
  IF isGen THEN local
  ELSE IF fetchTime # 0 THEN fetchHeight
  ELSE 0

\* generatorHeight as leaderInfo computes it.
GeneratorHeight(isGen, local, fetchHeight, fetchTime) ==
  IF isGen THEN local
  ELSE IF fetchTime # 0
       THEN (IF local > fetchHeight THEN local ELSE fetchHeight)
       ELSE 0

\* generatorFetched as leaderInfo computes it.
GeneratorFetched(isGen, now, fetchTime) ==
  IF isGen THEN now ELSE fetchTime

\* A block lands on the local chain.
BlockLanded ==
  /\ localHeight < MaxHeight
  /\ localHeight' = localHeight + 1
  /\ UNCHANGED <<isGenerator, fetched, info>>
  /\ UNCHANGED <<txVars, chainVars, clusterVars>>

\* A non-generator core caches the height it fetched from the generator.
FetchGeneratorHeight ==
  /\ ~isGenerator
  /\ \E h \in Heights, t \in Clock \ {0} :
       /\ h >= fetched.height
       /\ t >= fetched.time
       /\ fetched' = [height |-> h, time |-> t]
  /\ UNCHANGED <<isGenerator, localHeight, info>>
  /\ UNCHANGED <<txVars, chainVars, clusterVars>>

\* leaderInfo is called.
LeaderInfo ==
  /\ \E now \in Clock \ {0} :
       info' = [called |-> TRUE,
                is_generator |-> isGenerator,
                block_height |-> localHeight,
                generator_block_height |->
                  GeneratorHeight(isGenerator, localHeight, fetched.height,
                                  fetched.time),
                generator_block_height_fetched_at |->
                  GeneratorFetched(isGenerator, now, fetched.time),
                fetchHeight |-> fetched.height,
                fetchTime |-> fetched.time]
  /\ UNCHANGED <<isGenerator, localHeight, fetched>>
  /\ UNCHANGED <<txVars, chainVars, clusterVars>>

NextInfo ==
  \/ BlockLanded
  \/ FetchGeneratorHeight
  \/ LeaderInfo

SpecInfo == InitInfo /\ [][NextInfo]_vars


\* ------------------------------------------------------------------ claims
\* The entries of variant ty that validation of tx went through.
ValidatedOfType(ty) == {id \in validated : tx[id].Type = ty}

\* The application of tx has ended, one way or the other.
Ended == phase \in {"committed", "rolledback"}

\* C1: a transaction with a validated Nonce is applied successfully only if
\* the Nonce's ID was absent from the Nonce set, and the ID is in the set
\* afterwards; an application that finds the ID in the set ends in StateError;
\* so no Nonce is applied by more than one committed transaction.
C1_NonceAppliedOnce ==
  /\ phase = "committed" =>
       \A n \in ValidatedOfType("nonce") :
          n \notin before.nonces /\ n \in nonces
  /\ (Ended /\ \E n \in ValidatedOfType("nonce") : n \in before.nonces) =>
       phase = "rolledback" /\ outcome = "StateError"
  /\ \A n \in NonceIDs : nonceUses[n] <= 1

\* The replay of scenario 1: TxIssue was committed, and its second
\* application ended in StateError.
C1_ReplayRejected ==
  /\ tx = TxIssue
  /\ phase = "rolledback"
  /\ outcome = "StateError"
  /\ nonceUses["N1"] = 1
  /\ added["O1"] = 1
  /\ "N1" \in before.nonces

\* C2: the effect of a Spend succeeds only if its SpentOutput is in the UTXO
\* set, and then takes it out; otherwise the application fails with
\* StateError.  After a committed application no SpentOutput of the
\* transaction is in the UTXO set, and no Output has been spent by more
\* committed Spends than the times it was added.
C2_SpendNeedsUTXO ==
  /\ [][\A s \in todo :
          (phase = "applying" /\ tx[s].Type = "spend1" /\ todo' = todo \ {s}) =>
            IF tx[s].SpentOutput \in utxo
            THEN phase' = "applying" /\ tx[s].SpentOutput \notin utxo'
            ELSE phase' = "failed" /\ outcome' = "StateError"]_vars
  /\ [](phase = "committed" =>
          \A s \in ValidatedOfType("spend1") : tx[s].SpentOutput \notin utxo)
  /\ [](\A o \in OutputIDs : spent[o] <= added[o])

\* An Output added once and spent once; a second Spend of it was turned down.
C2_SecondSpendFails ==
  /\ phase = "rolledback"
  /\ \E s \in ValidatedOfType("spend1") :
       /\ tx[s].SpentOutput \in OutputIDs
       /\ added[tx[s].SpentOutput] = 1
       /\ spent[tx[s].SpentOutput] = 1
       /\ tx[s].SpentOutput \notin before.utxo
       /\ s \notin todo

\* C3: an application that fails leaves the UTXO set and the Nonce set as
\* they were when it started, whatever it had applied by then.
C3_FailureRestoresState ==
  phase = "rolledback" =>
    /\ utxo = before.utxo
    /\ nonces = before.nonces
    /\ outcome = "StateError"

\* A failed application that had added an Output before it failed.
C3_PartialEffectUndone ==
  /\ phase = "rolledback"
  /\ \E o \in ValidatedOfType("output1") : o \notin todo /\ o \notin before.utxo
  /\ \E n \in ValidatedOfType("nonce") : n \notin todo /\ n \notin before.nonces

\* C4: the UTXO set and the Nonce set change only during the application of
\* a transaction that validation has accepted; a rejected transaction leaves
\* both as they were when it arrived and has no effect pending.
C4_ValidationBeforeMutation ==
  /\ [][(utxo' # utxo \/ nonces' # nonces) =>
          result = Accept /\ phase \in {"applying", "failed"}]_vars
  /\ [](phase = "rejected" =>
          utxo = before.utxo /\ nonces = before.nonces /\ todo = {})

\* A rejected transaction, some of whose entries had been validated.
C4_RejectedAfterPartialValidation ==
  /\ phase = "rejected"
  /\ "N1" \in validated
  /\ "N1" \notin nonces

\* How the application of tx ended, and the chain state it left.
Ending ==
  [ok |-> phase = "committed", utxo |-> utxo, nonces |-> nonces]

\* What the application of tx in the listed order ends with.
ListedEnding ==
  ApplyListed(tx, Effects(tx, validated), before, before, blockTime)

\* A Spend of tx spends an Output that tx itself adds.
SpendsOwnOutput ==
  \E s \in ValidatedOfType("spend1") :
     tx[s].SpentOutput \in ValidatedOfType("output1")

\* C5 as stated: in whatever order the effects of an accepted transaction
\* are applied, the application ends as it does in the listed order, with
\* the same outcome and the same UTXO set and Nonce set.
C5_AnyOrderSameEnding == Ended => Ending = ListedEnding

\* C5 as amended: the same, for a transaction none of whose Spends spends
\* an Output that the transaction itself adds.
C5_AnyOrderSameEndingNoOwnSpend ==
  (Ended /\ ~SpendsOwnOutput) => Ending = ListedEnding

\* A committed transaction with a Spend, an Output and a Nonce in its
\* effects, none of the Spends spending an Output of its own.
C5_MixedEffectsCommitted ==
  /\ phase = "committed"
  /\ ~SpendsOwnOutput
  /\ ValidatedOfType("spend1") # {}
  /\ ValidatedOfType("output1") # {}
  /\ ValidatedOfType("nonce") # {}

\* The sums of Mux m agree for asset a.
SumsAgree(m, a) ==
  SumAmounts(m.Sources, a, 1) = SumAmounts(m.Destinations, a, 1)

MuxAssets(m) ==
  {m.Sources[i].Value.AssetID : i \in 1..Len(m.Sources)}
  \cup {m.Destinations[i].Value.AssetID : i \in 1..Len(m.Destinations)}

\* C6 as stated: in an accepted transaction the Source amounts and the
\* Destination amounts of every Mux among its entries add up to the same,
\* asset by asset.
C6_EveryMuxConserves ==
  (phase = "accepted") =>
    \A m \in DOMAIN tx :
       tx[m].Type = "mux1" => \A a \in MuxAssets(tx[m]) : SumsAgree(tx[m], a)

\* C6 as amended: in an accepted transaction the sums agree, asset by asset,
\* at every Mux that validation went through; a Mux visitable from the header
\* by Results and Sources whose sums differ makes validation reject; and
\* validation returns ConservationError only when the sums of a Mux differ
\* or overflow.
C6_ValidatedMuxConserves ==
  /\ (phase = "accepted") =>
       \A m \in ValidatedOfType("mux1") :
          \A a \in MuxAssets(tx[m]) : SumsAgree(tx[m], a)
  /\ (phase \in {"accepted", "rejected"}
      /\ \E m \in Visitable(tx) :
           /\ tx[m].Type = "mux1"
           /\ \E a \in MuxAssets(tx[m]) : ~SumsAgree(tx[m], a)) =>
       result # Accept
  /\ result = "ConservationError" =>
       \E m \in DOMAIN tx :
          /\ tx[m].Type = "mux1"
          /\ \E a \in MuxAssets(tx[m]) :
               \/ ~SumsAgree(tx[m], a)
               \/ ~SumFits(tx[m].Sources, a)
               \/ ~SumFits(tx[m].Destinations, a)

\* Scenario 3: every edge of Mux M1 agrees at both ends, its amounts of
\* asset A differ, and validation returned ConservationError.
C6_MuxRejected ==
  /\ result = "ConservationError"
  /\ "M1" \in DOMAIN tx
  /\ SumAmounts(tx["M1"].Sources, "A", 1) = 3
  /\ SumAmounts(tx["M1"].Destinations, "A", 1) # 3

\* C7: in an accepted transaction every Spend that validation went through
\* names as SpentOutput an Output among the entries, and the Value of that
\* Output's Source is the Value of the Spend's Destination, in AssetID and in
\* Amount.
C7_SpendForwardsSpentValue ==
  (phase = "accepted") =>
    \A s \in ValidatedOfType("spend1") :
       /\ tx[s].SpentOutput \in DOMAIN tx
       /\ tx[tx[s].SpentOutput].Type = "output1"
       /\ Source(tx[tx[s].SpentOutput]).Value.AssetID =
            Destination(tx[s]).Value.AssetID
       /\ Source(tx[tx[s].SpentOutput]).Value.Amount =
            Destination(tx[s]).Value.Amount

\* An accepted transaction with a Spend whose SpentOutput is present and
\* would not pass validation itself: its Source points at no entry.
C7_SpentOutputNotValidated ==
  /\ phase = "accepted"
  /\ \E s \in ValidatedOfType("spend1") :
       /\ tx[s].SpentOutput \notin validated
       /\ Source(tx[tx[s].SpentOutput]).Ref \notin DOMAIN tx

\* C8: in an accepted transaction, for every ValueSource of an entry that
\* validation went through, the ValueDestination it selects in the entry it
\* points at points back at the entry, with the same Value and with the
\* ValueSource's index as Position (0 outside a Mux); and likewise for every
\* ValueDestination of a validated Issuance, Spend or Mux.
C8_EdgesAgree ==
  (phase = "accepted") =>
    \A id \in validated :
       /\ \A i \in 1..Len(tx[id].Sources) :
            LET vs == tx[id].Sources[i] IN
            /\ vs.Ref \in DOMAIN tx
            /\ tx[vs.Ref].Type \in {"issuance1", "spend1", "mux1"}
            /\ tx[vs.Ref].Type # "mux1" => vs.Position = 0
            /\ vs.Position + 1 <= Len(tx[vs.Ref].Destinations)
            /\ tx[vs.Ref].Destinations[vs.Position + 1] =
                 ValueDestination(id, vs.Value,
                                  IF tx[id].Type = "mux1" THEN i - 1 ELSE 0)
       /\ \A i \in 1..Len(tx[id].Destinations) :
            LET vd == tx[id].Destinations[i] IN
            /\ vd.Ref \in DOMAIN tx
            /\ tx[vd.Ref].Type \in {"output1", "retirement1", "mux1"}
            /\ tx[vd.Ref].Type # "mux1" => vd.Position = 0
            /\ vd.Position + 1 <= Len(tx[vd.Ref].Sources)
            /\ tx[vd.Ref].Sources[vd.Position + 1] =
                 ValueSource(id, vd.Value,
                             IF tx[id].Type = "mux1" THEN i - 1 ELSE 0)

\* An accepted transaction with a Mux of two Sources and two Destinations,
\* the second of each at Position 1 of the Mux.
C8_MuxEdgesAccepted ==
  /\ phase = "accepted"
  /\ "M1" \in validated
  /\ Len(tx["M1"].Sources) = 2
  /\ tx["M1"].Destinations[2].Ref = "R1"
  /\ tx["R1"].Sources[1].Position = 1

\* C9: the minimal issuance transaction (header Version 1, Results = [O1],
\* Mintime 0, Maxtime 0; Issuance I1 anchored at Nonce N1, which references a
\* TimeRange [0,0]; Output O1 and I1 agreeing on the edge) is accepted, and
\* applied to a state whose Nonce set lacks N1 it commits, with exactly O1
\* added to the UTXO set and N1 added to the Nonce set.
C9_MinimalIssuance ==
  /\ (tx = TxIssue /\ phase # "assemble") => result = Accept
  /\ (tx = TxIssue /\ Ended /\ "N1" \notin before.nonces) =>
       /\ phase = "committed"
       /\ utxo = before.utxo \cup {"O1"}
       /\ nonces = before.nonces \cup {"N1"}

\* The minimal issuance transaction committed on a state that had neither
\* its Output nor its Nonce.
C9_IssuanceCommitted ==
  /\ tx = TxIssue
  /\ phase = "committed"
  /\ "N1" \notin before.nonces /\ "N1" \in nonces
  /\ "O1" \notin before.utxo /\ "O1" \in utxo

\* The entries of t whose validation validates a program.
ProgramEntries(t) ==
  {id \in DOMAIN t :
     \/ t[id].Type \in {"nonce", "mux1", "issuance1"}
     \/ /\ t[id].Type = "spend1"
        /\ t[id].SpentOutput \in DOMAIN t
        /\ t[t[id].SpentOutput].Type = "output1"}

\* The program that validation of entry id validates.
ProgramOf(t, id) ==
  CASE t[id].Type = "issuance1" -> t[id].AssetDefinition.IssuanceProgram
    [] t[id].Type = "spend1" -> t[t[id].SpentOutput].Program
    [] OTHER -> t[id].Program

\* The rule of the claim for program P with arguments A in a transaction of
\* version V.
ProgramRule(P, A, V) ==
  \/ P.VMVersion > 1 /\ V > 1
  \/ P.VMVersion = 1 /\ VerifyProgram(P, A)

\* C10: validating program P with arguments A in a transaction of version V
\* succeeds exactly when P.VMVersion > 1 and V > 1, or P.VMVersion = 1 and
\* the program validator returns true for (P, A): every entry that passed
\* validation has a program within the rule (so in a version-1 transaction
\* none has a VMVersion above 1), and validation returns ProgramError only
\* when the program of some entry is outside the rule.
C10_ProgramRule ==
  /\ \A id \in DOMAIN tx :
       id \in ProgramEntries(tx) =>
         ValidateProgram(ProgramOf(tx, id), tx[id].Arguments,
                         tx[HeaderID].Version)
           = ProgramRule(ProgramOf(tx, id), tx[id].Arguments,
                         tx[HeaderID].Version)
  /\ \A id \in validated \cap ProgramEntries(tx) :
       /\ ProgramRule(ProgramOf(tx, id), tx[id].Arguments, tx[HeaderID].Version)
       /\ tx[HeaderID].Version = 1 => ProgramOf(tx, id).VMVersion = 1
  /\ result = "ProgramError" =>
       \E id \in ProgramEntries(tx) :
          ~ProgramRule(ProgramOf(tx, id), tx[id].Arguments, tx[HeaderID].Version)

\* A version-1 transaction rejected with ProgramError for a program of a
\* later VM version whose script the validator would accept.
C10_LaterVMRejected ==
  /\ result = "ProgramError"
  /\ tx[HeaderID].Version = 1
  /\ \E id \in ProgramEntries(tx) :
       /\ ProgramOf(tx, id).VMVersion > 1
       /\ VerifyProgram(ProgramOf(tx, id), tx[id].Arguments)

\* The header of tx is within its time bounds at the block timestamp.
HeaderInTime ==
  /\ tx[HeaderID].Mintime = 0 \/ tx[HeaderID].Mintime < blockTime
  /\ tx[HeaderID].Maxtime = 0 \/ tx[HeaderID].Maxtime > blockTime

\* C11: an application at block timestamp t commits only if the header's
\* Mintime is zero or lower than t and its Maxtime is zero or higher than t;
\* with any other bounds it ends in StateError, with the UTXO set and the
\* Nonce set as they were before it.
C11_TimeBounds ==
  Ended =>
    /\ phase = "committed" => HeaderInTime
    /\ ~HeaderInTime =>
         /\ phase = "rolledback"
         /\ outcome = "StateError"
         /\ utxo = before.utxo
         /\ nonces = before.nonces

\* An application that failed on the header's Maxtime alone, after its
\* Output and its Nonce had been added.
C11_MaxtimePassed ==
  /\ phase = "rolledback"
  /\ tx[HeaderID].Maxtime > 0
  /\ tx[HeaderID].Maxtime <= blockTime
  /\ tx[HeaderID].Mintime = 0
  /\ ValidatedOfType("spend1") = {}
  /\ \A n \in ValidatedOfType("nonce") : n \notin before.nonces
  /\ \E o \in ValidatedOfType("output1") : o \notin before.utxo

\* Nonce n and the Issuance it names point at each other, and the Issuance
\* is visitable from the header.
NonceAnchors(n) ==
  /\ tx[n].Issuance \in Visitable(tx)
  /\ tx[tx[n].Issuance].Type = "issuance1"
  /\ tx[tx[n].Issuance].Anchor = n

\* C12: every Nonce that passed validation names an Issuance that is
\* visitable from the header and whose Anchor is the Nonce; a visited Nonce
\* with an accepted program that does not is rejected with
\* IssuanceAnchorError, and IssuanceAnchorError is returned only for such a
\* Nonce or for an Issuance whose AssetDefinition does not hash to its
\* AssetID.
C12_NonceNamesItsIssuance ==
  /\ \A n \in ValidatedOfType("nonce") : NonceAnchors(n)
  /\ (phase = "accepted") =>
       \A i \in ValidatedOfType("issuance1") :
          tx[tx[i].Anchor].Type = "nonce" => NonceAnchors(tx[i].Anchor)
  /\ result = "IssuanceAnchorError" =>
       \/ \E n \in DOMAIN tx : tx[n].Type = "nonce" /\ ~NonceAnchors(n)
       \/ \E i \in DOMAIN tx :
            /\ tx[i].Type = "issuance1"
            /\ AssetDefinitionHash(tx[i].AssetDefinition) # tx[i].Value.AssetID

\* A Nonce naming a visitable Issuance that is anchored at another Nonce,
\* rejected with IssuanceAnchorError.
C12_OtherIssuanceNamed ==
  /\ result = "IssuanceAnchorError"
  /\ \A i \in DOMAIN tx :
       tx[i].Type = "issuance1" =>
         AssetDefinitionHash(tx[i].AssetDefinition) = tx[i].Value.AssetID
  /\ \E n \in DOMAIN tx :
       /\ tx[n].Type = "nonce"
       /\ tx[n].Issuance \in Visitable(tx)
       /\ tx[tx[n].Issuance].Type = "issuance1"
       /\ tx[tx[n].Issuance].Anchor # n
       /\ tx[tx[tx[n].Issuance].Anchor].Type = "nonce"

\* TimeRange r is within the bounds the header allows.
TimeRangeFits(r) ==
  /\ tx[r].Mintime <= tx[HeaderID].Mintime
  /\ tx[r].Maxtime = 0 \/ tx[r].Maxtime >= tx[HeaderID].Maxtime

GraphRefs(e) ==
  BodyRefs(e) \cup {e.Destinations[i].Ref : i \in 1..Len(e.Destinations)}
  \cup ({e.Issuance} \ {Nil})

RECURSIVE GraphReach(_, _, _)
GraphReach(t, pending, seen) ==
  IF pending = {} THEN seen
  ELSE LET id == CHOOSE x \in pending : TRUE
           next == IF id \in DOMAIN t THEN GraphRefs(t[id]) ELSE {}
       IN GraphReach(t, (pending \cup next) \ (seen \cup {id}), seen \cup {id})

\* The entries reachable from the header in the transaction graph.
Reachable(t) == GraphReach(t, {HeaderID}, {}) \cap DOMAIN t

\* The pointers validation follows out of entry e: Results, Sources, an
\* Issuance's Anchor and a Nonce's TimeRange.
ValidationRefs(e) ==
  SourceRefs(e) \cup {e.Results[i] : i \in 1..Len(e.Results)}
  \cup ({e.Anchor, e.TimeRange} \ {Nil})

RECURSIVE ValidationReach(_, _, _)
ValidationReach(t, pending, seen) ==
  IF pending = {} THEN seen
  ELSE LET id == CHOOSE x \in pending : TRUE
           next == IF id \in DOMAIN t THEN ValidationRefs(t[id]) ELSE {}
       IN ValidationReach(t, (pending \cup next) \ (seen \cup {id}), seen \cup {id})

\* The entries validation comes to when nothing stops it.
Validatable(t) == ValidationReach(t, {HeaderID}, {}) \cap DOMAIN t

C15_OverflowRejected ==
  /\ \A m \in ValidatedOfType("mux1") :
       \A a \in MuxAssets(tx[m]) :
          SumFits(tx[m].Sources, a) /\ SumFits(tx[m].Destinations, a)
  /\ (phase \in {"accepted", "rejected"}
      /\ \E m \in Visitable(tx) :
           /\ tx[m].Type = "mux1"
           /\ \E a \in MuxAssets(tx[m]) :
                ~SumFits(tx[m].Sources, a) \/ ~SumFits(tx[m].Destinations, a)) =>
       result # Accept
  /\ (phase \in {"accepted", "rejected"}
      /\ \E v \in 1..MaxVersion : tx = [TxBigMux EXCEPT ![HeaderID].Version = v]) =>
       result = "ConservationError"

\* A Mux whose sums of asset A are equal, as integers and after wrap-around,
\* and do not fit, rejected with ConservationError.
C15_EqualSumsOverflow ==
  /\ result = "ConservationError"
  /\ "M1" \in DOMAIN tx
  /\ SumsAgree(tx["M1"], "A")
  /\ ~SumFits(tx["M1"].Sources, "A")
  /\ \A a \in MuxAssets(tx["M1"]) : SumsAgree(tx["M1"], a)

VerifyDone == {p \in Procs : calls[p].fn = "verify" /\ calls[p].pc = "done"}

\* C17: VerifyClusterID returns nil, and reads and writes nothing in
\* Postgres, when sinkdb's raft is uninitialized; it sets a new cluster ID in
\* both stores when neither holds one; it returns nil when the two IDs it
\* found are equal; and when its lookups found anything else it returns the
\* corrupted-datastores error and has written to neither store.
C17_VerifyClusterID ==
  \A p \in VerifyDone :
    LET c == calls[p] IN
    /\ c.sdbErr = "ErrUninitialized" =>
         c.ret = "nil" /\ c.pgErr = "unread" /\ c.wrote = {}
    /\ c.sdbErr = "none" /\ c.pgErr \in {"none", "ErrNoRows"} =>
         IF ~c.found /\ c.pgErr = "ErrNoRows"
         THEN /\ c.ret \in {"nil", "error"}
              /\ c.ret = "nil" =>
                   /\ c.clusterID \in FreshIDs
                   /\ c.wrote = {"sinkdb", "pg"}
                   /\ sdbClusterID = c.clusterID
                   /\ c.clusterID \in pgCluster
         ELSE IF c.found /\ c.pgErr = "none" /\ c.pgVal = c.sdbVal
         THEN c.ret = "nil" /\ c.wrote = {}
         ELSE c.ret = "corrupted" /\ c.wrote = {}

\* VerifyClusterID found an ID in sinkdb and no row in Postgres, and returned
\* the corrupted-datastores error.
C17_PostgresResetFound ==
  \E p \in VerifyDone :
    /\ calls[p].found
    /\ calls[p].pgErr = "ErrNoRows"
    /\ calls[p].ret = "corrupted"

\* The calls that wrote the key to sinkdb.
SdbWriters == {p \in Procs : "sinkdb" \in calls[p].wrote}

\* C18: however the calls of setClusterID interleave, at most one of them
\* writes the sinkdb key, a call inserts into Postgres only after its own
\* write to sinkdb went through, and every ID inserted into Postgres is the
\* ID sinkdb holds.
C18_OneClusterID ==
  /\ sdbWrites <= 1
  /\ Cardinality(SdbWriters) <= 1
  /\ \A p \in Procs :
       calls[p].pc = "insert" \/ "pg" \in calls[p].wrote => p \in SdbWriters
  /\ \A id \in inserted : id = sdbClusterID

\* Two calls of setClusterID drew different IDs: one wrote its ID to both
\* stores, the other returned an error and wrote nothing.
C18_LoserReturnsError ==
  \E p, q \in Procs :
    /\ calls[p].wrote = {"sinkdb", "pg"}
    /\ calls[q].clusterID \notin {Nil, calls[p].clusterID}
    /\ calls[q].pc = "done"
    /\ calls[q].ret = "error"
    /\ calls[q].wrote = {}

\* C19, as stated: a generator core reports its local height as
\* generator_block_height, and a non-generator core whose local height is
\* above the cached generator height reports its local height as
\* generator_block_height.
C19_LocalHeightShown ==
  info.called =>
    /\ info.is_generator => info.generator_block_height = info.block_height
    /\ ~info.is_generator /\ info.block_height > info.fetchHeight =>
         info.generator_block_height = info.block_height

\* C19, amended: a generator core reports its local height as
\* generator_block_height; a non-generator core whose cached fetch time is
\* not the zero time reports the higher of its local height and the cached
\* generator height; a non-generator core whose cached fetch time is the zero
\* time reports 0, at the zero time.
C19_LocalHeightShownOnceFetched ==
  info.called =>
    /\ info.is_generator => info.generator_block_height = info.block_height
    /\ ~info.is_generator /\ info.fetchTime # 0 =>
         /\ info.block_height > info.fetchHeight =>
              info.generator_block_height = info.block_height
         /\ info.block_height <= info.fetchHeight =>
              info.generator_block_height = info.fetchHeight
         /\ info.generator_block_height_fetched_at = info.fetchTime
    /\ ~info.is_generator /\ info.fetchTime = 0 =>
         /\ info.generator_block_height = 0
         /\ info.generator_block_height_fetched_at = 0

\* A non-generator core with a fetched generator height below its local
\* height reported its local height.
C19_AheadOfGenerator ==
  /\ info.called
  /\ ~info.is_generator
  /\ info.fetchTime # 0
  /\ info.block_height > info.fetchHeight
  /\ info.generator_block_height = info.block_height

====
